---- MODULE Spec2Model ----
(***************************************************************************)
(* Model of show_notes::e007 ("Testify"): the function add, the unit tests *)
(* and benchmarks declared next to it, and the callers of add.             *)
(*                                                                         *)
(* An f64 is its IEEE-754 binary64 bit pattern: a sign bit, an 11-bit      *)
(* exponent field and a 52-bit fraction.  The fraction is kept as two      *)
(* 26-bit halves (hi, lo) because the model checker's integers are 32 bits *)
(* wide.  The NaN payload is not observable through `+` and `==`; the      *)
(* model keeps one NaN.                                                    *)
(***************************************************************************)
EXTENDS Integers, Sequences, FiniteSets, TLC

(***************************************************************************)
(* Bounds of the model.                                                    *)
(***************************************************************************)
MaxCalls == 3
MaxLog == 3
NumThreads == 2
MaxIters == 3
MaxOversleep == 2
MaxMsgLen == 2

(***************************************************************************)
(* The f64 type.                                                           *)
(***************************************************************************)
ExpAllOnes == 2047
ExpBias == 1023
HalfFrac == 26
WideLimb == 28

Pow2(n) == 2 ^ n

F64(s, e, h, l) == [sign |-> s, exp |-> e, hi |-> h, lo |-> l]

IsF64(x) ==
  /\ DOMAIN x = {"sign", "exp", "hi", "lo"}
  /\ x.sign \in 0..1
  /\ x.exp \in 0..ExpAllOnes
  /\ x.hi \in 0..(Pow2(HalfFrac) - 1)
  /\ x.lo \in 0..(Pow2(HalfFrac) - 1)

IsNaN(x) == x.exp = ExpAllOnes /\ (x.hi # 0 \/ x.lo # 0)
IsInf(x) == x.exp = ExpAllOnes /\ x.hi = 0 /\ x.lo = 0
IsFinite(x) == x.exp < ExpAllOnes
IsZero(x) == x.exp = 0 /\ x.hi = 0 /\ x.lo = 0
IsSubnormal(x) == x.exp = 0 /\ ~IsZero(x)

NaN == F64(0, ExpAllOnes, Pow2(HalfFrac - 1), 0)
Inf(s) == F64(s, ExpAllOnes, 0, 0)
Zero(s) == F64(s, 0, 0, 0)

\* The f64 `==` (PartialEq): NaN equals nothing, the two zeros are equal.
F64Eq(x, y) == ~IsNaN(x) /\ ~IsNaN(y) /\ (x = y \/ (IsZero(x) /\ IsZero(y)))

\* Number of bits of a positive integer.
RECURSIVE BitLen(_)
BitLen(n) == IF n = 0 THEN 0 ELSE 1 + BitLen(n \div 2)

\* A float literal with an integral value (2.0, 4.0, 5.0), |n| < 2^26.
F64Lit(n) ==
  LET m == IF n < 0 THEN -n ELSE n
      k == BitLen(m) - 1
  IN IF m = 0 THEN Zero(0)
     ELSE F64(IF n < 0 THEN 1 ELSE 0, ExpBias + k, (m - Pow2(k)) * Pow2(HalfFrac - k), 0)

\* Exponent of the unit in the last place, as the biased field (subnormals
\* share the scale of the smallest normal numbers).
ScaleExp(x) == IF x.exp = 0 THEN 1 ELSE x.exp

\* The 53-bit significand followed by guard, round and sticky bits: a
\* 56-bit number in two 28-bit limbs.
Wide(x) ==
  [h |-> 2 * ((IF x.exp = 0 THEN 0 ELSE Pow2(HalfFrac)) + x.hi) + x.lo \div Pow2(HalfFrac - 1),
   l |-> 8 * (x.lo % Pow2(HalfFrac - 1))]

Sticky(l, lost) == IF lost /\ l % 2 = 0 THEN l + 1 ELSE l

\* Shift right by d bits; the bits shifted out are or-ed into the last bit.
ShrSticky(w, d) ==
  IF d = 0 THEN w
  ELSE IF d >= 2 * WideLimb
    THEN [h |-> 0, l |-> IF w.h # 0 \/ w.l # 0 THEN 1 ELSE 0]
  ELSE IF d >= WideLimb
    THEN LET k == d - WideLimb
         IN [h |-> 0,
             l |-> Sticky(w.h \div Pow2(k), (w.h % Pow2(k) # 0) \/ w.l # 0)]
    ELSE [h |-> w.h \div Pow2(d),
          l |-> Sticky(w.l \div Pow2(d) + (w.h % Pow2(d)) * Pow2(WideLimb - d),
                       w.l % Pow2(d) # 0)]

WAdd(x, y) ==
  LET s == x.l + y.l
  IN [h |-> x.h + y.h + s \div Pow2(WideLimb), l |-> s % Pow2(WideLimb)]

WSub(x, y) ==
  LET d == x.l - y.l
  IN IF d < 0 THEN [h |-> x.h - y.h - 1, l |-> d + Pow2(WideLimb)]
              ELSE [h |-> x.h - y.h, l |-> d]

MagLess(x, y) ==
  \/ ScaleExp(x) < ScaleExp(y)
  \/ /\ ScaleExp(x) = ScaleExp(y)
     /\ \/ Wide(x).h < Wide(y).h
        \/ Wide(x).h = Wide(y).h /\ Wide(x).l < Wide(y).l

\* Shift left until the leading bit is set or the smallest scale is reached.
RECURSIVE Normalize(_, _)
Normalize(w, e) ==
  IF w.h >= Pow2(WideLimb - 1) \/ e = 1 THEN [w |-> w, e |-> e]
  ELSE Normalize([h |-> 2 * w.h + (2 * w.l) \div Pow2(WideLimb),
                  l |-> (2 * w.l) % Pow2(WideLimb)], e - 1)

\* Round to nearest, ties to even, and encode; overflow gives infinity.
RoundPack(s, w, e) ==
  LET rem == w.l % 8
      odd == (w.l \div 8) % 2 = 1
      up == rem > 4 \/ (rem = 4 /\ odd)
      l1 == w.l - rem + (IF up THEN 8 ELSE 0)
      h1 == w.h + l1 \div Pow2(WideLimb)
      l2 == l1 % Pow2(WideLimb)
      ovf == h1 >= Pow2(WideLimb)
      h == IF ovf THEN Pow2(WideLimb - 1) ELSE h1
      l == IF ovf THEN 0 ELSE l2
      e2 == IF ovf THEN e + 1 ELSE e
  IN IF h < Pow2(WideLimb - 1)
       THEN F64(s, 0, h \div 2, (h % 2) * Pow2(HalfFrac - 1) + l \div 8)
     ELSE IF e2 >= ExpAllOnes THEN Inf(s)
     ELSE F64(s, e2, (h % Pow2(WideLimb - 1)) \div 2,
              (h % 2) * Pow2(HalfFrac - 1) + l \div 8)

\* Takes the sign of the result from the left operand.
AddFinite_lhs(a, b) ==
  LET big == IF MagLess(a, b) THEN b ELSE a
      small == IF MagLess(a, b) THEN a ELSE b
      e == ScaleExp(big)
      wb == Wide(big)
      ws == ShrSticky(Wide(small), e - ScaleExp(small))
  IN IF a.sign = b.sign
     THEN LET s == WAdd(wb, ws)
          IN IF s.h >= Pow2(WideLimb)
             THEN RoundPack(a.sign,
                            [h |-> s.h \div 2,
                             l |-> Sticky(s.l \div 2 + (s.h % 2) * Pow2(WideLimb - 1),
                                          s.l % 2 = 1)],
                            e + 1)
             ELSE RoundPack(a.sign, s, e)
     ELSE LET d == WSub(wb, ws)
          IN IF d.h = 0 /\ d.l = 0 THEN Zero(0)
             ELSE LET n == Normalize(d, e) IN RoundPack(a.sign, n.w, n.e)

\* Sum of two finite numbers: the exact sum, rounded once.
AddFinite(a, b) ==
  LET big == IF MagLess(a, b) THEN b ELSE a
      small == IF MagLess(a, b) THEN a ELSE b
      e == ScaleExp(big)
      wb == Wide(big)
      ws == ShrSticky(Wide(small), e - ScaleExp(small))
  IN IF a.sign = b.sign
     THEN LET s == WAdd(wb, ws)
          IN IF s.h >= Pow2(WideLimb)
             THEN RoundPack(big.sign,
                            [h |-> s.h \div 2,
                             l |-> Sticky(s.l \div 2 + (s.h % 2) * Pow2(WideLimb - 1),
                                          s.l % 2 = 1)],
                            e + 1)
             ELSE RoundPack(big.sign, s, e)
     ELSE LET d == WSub(wb, ws)
          IN IF d.h = 0 /\ d.l = 0 THEN Zero(0)
             ELSE LET n == Normalize(d, e) IN RoundPack(big.sign, n.w, n.e)

\* A variant of `+` that forgets that opposite infinities cancel to NaN.
F64Add_inf(a, b) ==
  IF IsNaN(a) \/ IsNaN(b) THEN NaN
  ELSE IF IsInf(a) THEN a
  ELSE IF IsInf(b) THEN b
  ELSE AddFinite(a, b)

\* The native `a + b` on f64.
F64Add(a, b) ==
  IF IsNaN(a) \/ IsNaN(b) THEN NaN
  ELSE IF IsInf(a) THEN (IF IsInf(b) /\ a.sign # b.sign THEN NaN ELSE a)
  ELSE IF IsInf(b) THEN b
  ELSE AddFinite(a, b)

F64Neg(x) == [x EXCEPT !.sign = 1 - @]

(***************************************************************************)
(* Values the callers pass.                                                *)
(***************************************************************************)
PosZero == Zero(0)
NegZero == Zero(1)
One == F64Lit(1)
Two == F64Lit(2)
NegTwo == F64Lit(-2)
Four == F64Lit(4)
Five == F64Lit(5)
Tenth == F64(0, 1019, 40265318, 26843546)
Fifth == F64(0, 1020, 40265318, 26843546)
ThreeTenthsUp == F64(0, 1021, 13421772, 53687092)
HalfEps == F64(0, ExpBias - 53, 0, 0)
MaxFinite == F64(0, ExpAllOnes - 1, Pow2(HalfFrac) - 1, Pow2(HalfFrac) - 1)
MinSubnormal == F64(0, 0, 0, 1)
PosInf == Inf(0)
NegInf == Inf(1)

Inputs ==
  {PosZero, NegZero, One, Two, NegTwo, Tenth, Fifth, HalfEps, MaxFinite,
   MinSubnormal, PosInf, NegInf, NaN}

LogInputs == {One, Two, NegTwo, NaN}
ThreadInputs == {Two, NegInf}

(***************************************************************************)
(* The outcome of a call: it returns a value or it unwinds with a panic.   *)
(***************************************************************************)
Unit == <<>>
Return(v) == [kind |-> "return", val |-> v]
Panic(m) == [kind |-> "panic", msg |-> m]
NotRun == [kind |-> "notrun"]

(***************************************************************************)
(* Text: a string is the sequence of its characters.                       *)
(***************************************************************************)
CrazedMonkeys ==
  <<"C", "r", "a", "z", "e", "d", " ", "m", "o", "n", "k", "e", "y", "s",
    "!">>

CrazedMonkeysTypo ==
  <<"C", "r", "a", "z", "e", "d", " ", "m", "o", "n", "k", "e", "y", "!">>

\* What assert_eq! panics with (without its backquotes; the rendering of
\* the two operands, which follows this text, is left out).
AssertEqMsg ==
  <<"a", "s", "s", "e", "r", "t", "i", "o", "n", " ", "f", "a", "i", "l",
    "e", "d", ":", " ", "(", "l", "e", "f", "t", " ", "=", "=", " ",
    "r", "i", "g", "h", "t", ")">>

\* str::contains, used by the harness to match an expected panic message.
Contains(hay, needle) ==
  \E i \in 0..(Len(hay) - Len(needle)) : SubSeq(hay, i + 1, i + Len(needle)) = needle

MsgAlphabet == {"!", "s"}

RECURSIVE Strings(_)
Strings(n) ==
  IF n = 0 THEN {<<>>}
  ELSE Strings(n - 1) \cup {Append(s, c) : s \in Strings(n - 1), c \in MsgAlphabet}

Msgs ==
  Strings(MaxMsgLen)
    \cup {CrazedMonkeys, CrazedMonkeysTypo, SubSeq(CrazedMonkeys, 1, 14),
          <<"!">> \o CrazedMonkeys \o <<"s">>}

Expecteds == Strings(MaxMsgLen) \cup {CrazedMonkeys}

(***************************************************************************)
(* State.                                                                  *)
(***************************************************************************)
VARIABLES
  last,      \* callers of add: the latest call, <<>> before the first
  ncalls,    \* callers of add: number of calls made
  io,        \* everything written to the outside world
  log,       \* callers of add: the calls in order, with their results
  pc,        \* threads: "idle", "running" (inside add) or "done"
  targs,     \* threads: the arguments on each thread's stack
  tret,      \* threads: the value each thread's call returned
  overlap,   \* threads: those that returned while another was inside add
  status,    \* test binary: "pending", "running", "ok" or "failed" per item
  outcome,   \* test binary: how each test body ended
  benchRets, \* test binary: what the benchmarked add closure returned
  duration,  \* test binary: the local duration of the sleep benchmark
  sleeps,    \* test binary: the durations passed to sleep, in order
  clock,     \* test binary: nanoseconds elapsed
  hAttr,     \* harness case: its should_panic attribute
  hBody,     \* harness case: how its body ends
  hReport    \* harness case: "pending", "ok" or "failed"

addVars == <<last, ncalls, io>>
logVars == <<log>>
threadVars == <<pc, targs, tret, overlap>>
testVars == <<status, outcome, benchRets, duration, sleeps, clock>>
caseVars == <<hAttr, hBody, hReport>>
vars == <<addVars, logVars, threadVars, testVars, caseVars>>

Threads == 1..NumThreads
Tests == {"test_add", "test_add_badly", "test_will_panic"}
Benches == {"demonstrate_benchmarking", "demonstrate_benchmarking_with_sleep"}

(***************************************************************************)
(* pub fn add(a: f64, b: f64) -> f64                                       *)
(***************************************************************************)
\* `a - b` in place of `a + b`.
add_sub(a, b) == Return(F64Add(a, F64Neg(b)))

\* One more than the sum.
add_plus_one(a, b) == Return(F64Add(F64Add(a, b), One))

\* Validates its input: refuses anything that is not finite.
add_checked(a, b) ==
  IF IsFinite(a) /\ IsFinite(b) THEN Return(F64Add(a, b)) ELSE Panic(AssertEqMsg)

\* Keeps a running total: adds the result of the call before.
add_accum(a, b) ==
  IF log = <<>> \/ log[Len(log)].out.kind # "return" THEN Return(F64Add(a, b))
  ELSE Return(F64Add(F64Add(a, b), log[Len(log)].out.val))

\* Passes the first argument through a global that every thread writes on
\* entry: the value read is that of any thread now inside the function.
add_racy(a, b) ==
  LET inside == {t \in Threads : pc[t] = "running"}
  IN IF inside = {} THEN Return(F64Add(a, b))
     ELSE Return(F64Add(targs[CHOOSE t \in inside : TRUE].a, b))

add(a, b) == Return(F64Add(a, b))

(***************************************************************************)
(* The test harness and the declared tests.                                *)
(***************************************************************************)
\* assert_eq!(left, right), where left is a call: a panic of the call
\* unwinds through the assertion.
assert_eq(left, right) ==
  IF left.kind = "panic" THEN left
  ELSE IF F64Eq(left.val, right) THEN Return(Unit)
  ELSE Panic(AssertEqMsg)

ShouldPanicNo == [kind |-> "no", msg |-> <<>>]
ShouldPanicYes == [kind |-> "yes", msg |-> <<>>]
ShouldPanicExpected(m) == [kind |-> "expected", msg |-> m]

\* The harness's verdict on a test body that has ended.
Report(attr, out) ==
  IF attr.kind = "no" THEN (IF out.kind = "return" THEN "ok" ELSE "failed")
  ELSE IF attr.kind = "yes" THEN (IF out.kind = "panic" THEN "ok" ELSE "failed")
  ELSE IF out.kind = "panic" /\ Contains(out.msg, attr.msg) THEN "ok"
  ELSE "failed"

test_add == assert_eq(add(Two, Two), Four)

test_add_badly == assert_eq(add(Two, Two), Five)

\* Panics with a message that is not the expected one.
test_will_panic_typo == Panic(CrazedMonkeysTypo)

test_will_panic == Panic(CrazedMonkeys)

Body(t) ==
  CASE t = "test_add" -> test_add
    [] t = "test_add_badly" -> test_add_badly
    [] t = "test_will_panic" -> test_will_panic

ShouldPanic(t) ==
  CASE t = "test_add" -> ShouldPanicNo
    [] t = "test_add_badly" -> ShouldPanicYes
    [] t = "test_will_panic" -> ShouldPanicExpected(CrazedMonkeys)

NANOS_PER_SEC == 1000000000

\* Duration::new: whole seconds of the nanoseconds carry into the seconds.
DurationNew(secs, nanos) ==
  [secs |-> secs + nanos \div NANOS_PER_SEC, nanos |-> nanos % NANOS_PER_SEC]

DurationNanos(d) == d.secs * NANOS_PER_SEC + d.nanos

support_function(ns) == DurationNew(0, ns)

SleepArg == 10

RunTest(t) ==
  /\ status[t] = "pending"
  /\ outcome' = [outcome EXCEPT ![t] = Body(t)]
  /\ status' = [status EXCEPT ![t] = Report(ShouldPanic(t), Body(t))]
  /\ UNCHANGED <<benchRets, duration, sleeps, clock>>
  /\ UNCHANGED <<addVars, logVars, threadVars, caseVars>>

Run_test_add == RunTest("test_add")
Run_test_add_badly == RunTest("test_add_badly")
Run_test_will_panic == RunTest("test_will_panic")

\* bencher.iter(|| add(2.0, 2.0)): one more call of the closure.
BenchAddIter ==
  /\ status["demonstrate_benchmarking"] \in {"pending", "running"}
  /\ Len(benchRets) < MaxIters
  /\ benchRets' = Append(benchRets, add(Two, Two))
  /\ status' = [status EXCEPT !["demonstrate_benchmarking"] = "running"]
  /\ UNCHANGED <<outcome, duration, sleeps, clock>>
  /\ UNCHANGED <<addVars, logVars, threadVars, caseVars>>

\* bencher.iter returns after at least one call.
BenchAddDone ==
  /\ status["demonstrate_benchmarking"] = "running"
  /\ status' = [status EXCEPT !["demonstrate_benchmarking"] = "ok"]
  /\ UNCHANGED <<outcome, benchRets, duration, sleeps, clock>>
  /\ UNCHANGED <<addVars, logVars, threadVars, caseVars>>

\* let duration = support_function(10);
BenchSleepStart ==
  /\ status["demonstrate_benchmarking_with_sleep"] = "pending"
  /\ duration' = support_function(SleepArg)
  /\ status' = [status EXCEPT !["demonstrate_benchmarking_with_sleep"] = "running"]
  /\ UNCHANGED <<outcome, benchRets, sleeps, clock>>
  /\ UNCHANGED <<addVars, logVars, threadVars, caseVars>>

\* bencher.iter(|| sleep(duration)): one more call of the closure; the
\* thread sleeps for at least the duration asked for.
BenchSleepIter ==
  /\ status["demonstrate_benchmarking_with_sleep"] = "running"
  /\ Len(sleeps) < MaxIters
  /\ sleeps' = Append(sleeps, duration)
  /\ \E over \in 0..MaxOversleep : clock' = clock + DurationNanos(duration) + over
  /\ UNCHANGED <<status, outcome, benchRets, duration>>
  /\ UNCHANGED <<addVars, logVars, threadVars, caseVars>>

BenchSleepDone ==
  /\ status["demonstrate_benchmarking_with_sleep"] = "running"
  /\ Len(sleeps) >= 1
  /\ status' = [status EXCEPT !["demonstrate_benchmarking_with_sleep"] = "ok"]
  /\ UNCHANGED <<outcome, benchRets, duration, sleeps, clock>>
  /\ UNCHANGED <<addVars, logVars, threadVars, caseVars>>

(***************************************************************************)
(* Callers of add.                                                         *)
(***************************************************************************)
\* A call that also writes a line to the outside world.
CallAdd_logging(a, b) ==
  /\ ncalls < MaxCalls
  /\ last' = <<[a |-> a, b |-> b, out |-> add(a, b)]>>
  /\ ncalls' = ncalls + 1
  /\ io' = Append(io, "add")
  /\ UNCHANGED <<logVars, threadVars, testVars, caseVars>>

\* A caller calls add(a, b) and keeps what it returned.
CallAdd(a, b) ==
  /\ ncalls < MaxCalls
  /\ last' = <<[a |-> a, b |-> b, out |-> add(a, b)]>>
  /\ ncalls' = ncalls + 1
  /\ UNCHANGED io
  /\ UNCHANGED <<logVars, threadVars, testVars, caseVars>>

\* A caller calls add(a, b); the call and its result are appended to the log.
CallLogged(a, b) ==
  /\ Len(log) < MaxLog
  /\ log' = Append(log, [a |-> a, b |-> b, out |-> add(a, b)])
  /\ UNCHANGED <<addVars, threadVars, testVars, caseVars>>

\* Thread t calls add(a, b): the arguments go on its own stack.
Enter(t, a, b) ==
  /\ pc[t] = "idle"
  /\ pc' = [pc EXCEPT ![t] = "running"]
  /\ targs' = [targs EXCEPT ![t] = [a |-> a, b |-> b]]
  /\ UNCHANGED <<tret, overlap>>
  /\ UNCHANGED <<addVars, logVars, testVars, caseVars>>

\* Thread t evaluates the body and returns.
Exit(t) ==
  /\ pc[t] = "running"
  /\ pc' = [pc EXCEPT ![t] = "done"]
  /\ tret' = [tret EXCEPT ![t] = add(targs[t].a, targs[t].b)]
  /\ overlap' = IF \E u \in Threads \ {t} : pc[u] = "running"
                  THEN overlap \cup {t} ELSE overlap
  /\ UNCHANGED targs
  /\ UNCHANGED <<addVars, logVars, testVars, caseVars>>

\* The harness runs the case and reports it.
RunCase ==
  /\ hReport = "pending"
  /\ hReport' = Report(hAttr, hBody)
  /\ UNCHANGED <<hAttr, hBody>>
  /\ UNCHANGED <<addVars, logVars, threadVars, testVars>>

(***************************************************************************)
(* Specifications.                                                         *)
(***************************************************************************)
InitAdd == last = <<>> /\ ncalls = 0 /\ io = <<>>
InitLog == log = <<>>
InitThreads ==
  /\ pc = [t \in Threads |-> "idle"]
  /\ targs = [t \in Threads |-> [a |-> PosZero, b |-> PosZero]]
  /\ tret = [t \in Threads |-> NotRun]
  /\ overlap = {}
InitTests ==
  /\ status = [t \in Tests \cup Benches |-> "pending"]
  /\ outcome = [t \in Tests |-> NotRun]
  /\ benchRets = <<>>
  /\ duration = DurationNew(0, 0)
  /\ sleeps = <<>>
  /\ clock = 0
InitCase ==
  /\ hAttr = ShouldPanicNo
  /\ hBody = Return(Unit)
  /\ hReport = "pending"

\* The test binary: the harness runs every test and benchmark once, in any
\* order.
Init == InitAdd /\ InitLog /\ InitThreads /\ InitTests /\ InitCase

Next ==
  \/ Run_test_add
  \/ Run_test_add_badly
  \/ Run_test_will_panic
  \/ BenchAddIter
  \/ BenchAddDone
  \/ BenchSleepStart
  \/ BenchSleepIter
  \/ BenchSleepDone

Spec == Init /\ [][Next]_vars

\* Callers of the public function, with any arguments.
NextAdd == \E a \in Inputs, b \in Inputs : CallAdd(a, b)

SpecAdd == Init /\ [][NextAdd]_vars

\* Callers of the public function, with the history of calls kept.
NextLog == \E a \in LogInputs, b \in LogInputs : CallLogged(a, b)

SpecLog == Init /\ [][NextLog]_vars

\* Threads calling the public function concurrently.
NextThreads ==
  \/ \E t \in Threads : \E a \in ThreadInputs, b \in ThreadInputs : Enter(t, a, b)
  \/ \E t \in Threads : Exit(t)

SpecThreads == Init /\ [][NextThreads]_vars

\* The harness on the declared test_will_panic and on one more test case:
\* any should_panic attribute, and a body that returns or panics.
InitHarness ==
  /\ InitAdd /\ InitLog /\ InitThreads /\ InitTests
  /\ hReport = "pending"
  /\ hAttr \in {ShouldPanicNo, ShouldPanicYes}
                 \cup {ShouldPanicExpected(m) : m \in Expecteds}
  /\ \/ hBody = Return(Unit)
     \/ \E m \in Msgs : hBody = Panic(m)

NextHarness ==
  \/ Run_test_will_panic
  \/ RunCase

SpecHarness == InitHarness /\ [][NextHarness]_vars

(***************************************************************************)
(* Properties.                                                             *)
(***************************************************************************)
\* A finite f64 whose value is an integer below 2^26 in magnitude.
IsSmallInt(x) ==
  \/ IsZero(x)
  \/ /\ x.lo = 0
     /\ x.exp \in ExpBias..(ExpBias + HalfFrac - 1)
     /\ x.hi % Pow2(HalfFrac - (x.exp - ExpBias)) = 0

F64ToInt(x) ==
  IF IsZero(x) THEN 0
  ELSE (IF x.sign = 1 THEN -1 ELSE 1)
         * ((Pow2(HalfFrac) + x.hi) \div Pow2(HalfFrac - (x.exp - ExpBias)))

Calls == {last[i] : i \in DOMAIN last}

IsCall(c, a, b) == c.a = a /\ c.b = b

\* needle occurs in hay, by scanning hay from the left.
RECURSIVE Occurs(_, _)
Occurs(needle, hay) ==
  IF Len(needle) > Len(hay) THEN FALSE
  ELSE IF \A i \in 1..Len(needle) : hay[i] = needle[i] THEN TRUE
  ELSE Occurs(needle, Tail(hay))

\* C1: for finite a and b, add(a, b) returns exactly the native sum a + b:
\* the integer sum where both are small integers, the sum rounded to nearest
\* (ties to even) where it is not representable, infinity on overflow; and
\* add(2.0, 2.0) == 4.0, so the assertion of test_add does not fail.
C1_AddIsNativeSum ==
  /\ test_add.kind = "return"
  /\ \A c \in Calls :
       IsFinite(c.a) /\ IsFinite(c.b) =>
         /\ c.out.kind = "return"
         /\ c.out.val = F64Add(c.a, c.b)
         /\ IsSmallInt(c.a) /\ IsSmallInt(c.b) =>
              /\ IsSmallInt(c.out.val)
              /\ F64ToInt(c.out.val) = F64ToInt(c.a) + F64ToInt(c.b)
         /\ IsCall(c, Two, Two) => F64Eq(c.out.val, Four)
         /\ IsCall(c, Tenth, Fifth) => c.out.val = ThreeTenthsUp
         /\ IsCall(c, One, HalfEps) => c.out.val = One
         /\ IsCall(c, MaxFinite, MaxFinite) => c.out.val = PosInf
         /\ IsCall(c, MinSubnormal, MinSubnormal) => c.out.val = F64(0, 0, 0, 2)

C1_Witness ==
  \E c \in Calls : IsCall(c, Tenth, Fifth) /\ c.out.val = ThreeTenthsUp

\* C2: add is commutative: for finite a and b, the value add(a, b) returned
\* is the value add(b, a) returns.
C2_Commutative ==
  \A c \in Calls :
    IsFinite(c.a) /\ IsFinite(c.b) =>
      /\ c.out.kind = "return"
      /\ add(c.b, c.a).kind = "return"
      /\ c.out.val = add(c.b, c.a).val

C2_Witness ==
  \E c \in Calls : IsCall(c, One, NegTwo) /\ c.out.val = F64Lit(-1)

\* C3: add is total: whatever the arguments (NaN, the infinities and
\* subnormals included) the call returns, without a panic, and what it
\* returns is an f64.
C3_Total ==
  \A c \in Calls : c.out.kind = "return" /\ IsF64(c.out.val)

C3_Witness ==
  \E c \in Calls : IsCall(c, NaN, MinSubnormal) /\ c.out.kind = "return"

\* C4: add(NaN, 1.0) is NaN and add(+Infinity, -Infinity) is NaN.
C4_SpecialValues ==
  \A c \in Calls :
    /\ c.out.kind = "return"
    /\ IsNaN(c.a) /\ c.b = One => IsNaN(c.out.val)
    /\ IsCall(c, PosInf, NegInf) => IsNaN(c.out.val)

C4_Witness ==
  \E c \in Calls : IsCall(c, PosInf, NegInf) /\ IsNaN(c.out.val)

\* C5: after any sequence of calls of add, nothing has been written to the
\* outside world and all state other than the callers' record of their own
\* arguments and results is as it was before the first call.
C5_NoSideEffects ==
  /\ io = <<>>
  /\ InitLog /\ InitThreads /\ InitTests /\ InitCase

C5_Witness == ncalls >= 2 /\ io = <<>>

\* C6: threads calling add concurrently: whatever the interleaving, a call
\* that has returned returned the sum of its own arguments, and no thread
\* inside add waits for another.
C6_ThreadSafe ==
  \A t \in Threads :
    /\ pc[t] = "done" =>
         /\ tret[t].kind = "return"
         /\ tret[t].val = F64Add(targs[t].a, targs[t].b)
    /\ pc[t] = "running" => ENABLED Exit(t)

C6_Witness ==
  /\ \A t \in Threads : pc[t] = "done"
  /\ overlap # {}
  /\ \E t \in Threads, u \in Threads : targs[t] # targs[u]

\* C7: add(2.0, 2.0) != 5.0: the body of test_add_badly panics, and the
\* harness, which expects a panic with any message, reports the test passed.
C7_AddBadlyPasses ==
  /\ test_add_badly.kind = "panic"
  /\ status["test_add_badly"] # "failed"
  /\ status["test_add_badly"] = "ok" => outcome["test_add_badly"].kind = "panic"

C7_Witness ==
  status["test_add_badly"] = "ok" /\ outcome["test_add_badly"].kind = "panic"

\* C8: test_will_panic panics with a message that contains the expected
\* "Crazed monkeys!" and is reported passed; a test that expects a panic
\* message and whose body returns, or panics with a message that does not
\* contain the expected text, is reported failed.
C8_ExpectedPanic ==
  /\ test_will_panic.kind = "panic"
  /\ Occurs(CrazedMonkeys, test_will_panic.msg)
  /\ status["test_will_panic"] # "failed"
  /\ hAttr.kind = "expected" /\ hReport # "pending" =>
       IF hBody.kind = "panic" /\ Occurs(hAttr.msg, hBody.msg)
         THEN hReport = "ok"
         ELSE hReport = "failed"

C8_Witness ==
  /\ status["test_will_panic"] = "ok"
  /\ hAttr = ShouldPanicExpected(CrazedMonkeys)
  /\ hBody.kind = "panic"
  /\ hBody.msg = CrazedMonkeysTypo
  /\ hReport = "failed"

\* C9: every call of the closure of demonstrate_benchmarking_with_sleep asks
\* sleep for 1 ms, that is 0 s and 1,000,000 ns.
C9_SleepsOneMillisecond ==
  \A i \in DOMAIN sleeps : sleeps[i] = [secs |-> 0, nanos |-> 1000000]

\* C10: add is deterministic: two calls with the same arguments, wherever
\* they stand in the sequence of calls, returned the same value.
C10_Deterministic ==
  \A i \in DOMAIN log, j \in DOMAIN log :
    log[i].a = log[j].a /\ log[i].b = log[j].b =>
      /\ log[i].out.kind = "return"
      /\ log[j].out.kind = "return"
      /\ log[i].out.val = log[j].out.val

C10_Witness ==
  /\ Len(log) >= 3
  /\ log[1].a = log[3].a /\ log[1].b = log[3].b
  /\ log[2].a # log[1].a
  /\ log[1].out.val = log[3].out.val

====
